---- MODULE Spec2Model ----
(***************************************************************************)
(* Model of the vendored Proxmoxia client                                  *)
(* (src/src/proxmox_mcp/vendor/proxmoxia/__init__.py): the Connector and   *)
(* its two authentication procedures, the transport (_request), the        *)
(* Proxmox / Node wrappers and the AttrMethod attribute chain.             *)
(*                                                                         *)
(* Python strings are sequences of one-character strings, so that          *)
(* formatting, joining and percent-encoding are computed, not assumed.     *)
(***************************************************************************)
EXTENDS Integers, Sequences, FiniteSets, TLC

(***************************************************************************)
(* Bounds of the exploration.                                              *)
(***************************************************************************)
MaxSteps == 3       \* identifiers and arguments one attribute chain names
MaxClients == 2     \* clients the adapter's factory produces

(***************************************************************************)
(* Strings.                                                                *)
(***************************************************************************)
\* Python's None: a one-element sequence no character string can equal.
None == <<"<None>">>

Lower == {"a","b","c","d","e","f","g","h","i","j","k","l","m",
          "n","o","p","q","r","s","t","u","v","w","x","y","z"}
Upper == {"A","B","C","D","E","F","G","H","I","J","K","L","M",
          "N","O","P","Q","R","S","T","U","V","W","X","Y","Z"}
Digits == {"0","1","2","3","4","5","6","7","8","9"}

\* urllib.parse.quote: the characters never quoted, and the default safe="/".
AlwaysSafe == Lower \cup Upper \cup Digits \cup {"_", ".", "-", "~"}
QuoteSafe == {"/"}

\* Code points of the other ASCII characters the model's inputs use.
Ord(c) ==
    CASE c = " " -> 32
      [] c = "!" -> 33
      [] c = "%" -> 37
      [] c = ":" -> 58
      [] c = "=" -> 61
      [] c = "?" -> 63
      [] c = "@" -> 64

HexDigit(n) == <<"0","1","2","3","4","5","6","7","8","9","A","B","C","D","E","F">>[n + 1]

PctEncode(c) == <<"%", HexDigit(Ord(c) \div 16), HexDigit(Ord(c) % 16)>>

RECURSIVE quote(_)
quote(s) ==
    IF s = <<>> THEN <<>>
    ELSE (IF Head(s) \in AlwaysSafe \cup QuoteSafe THEN <<Head(s)>> ELSE PctEncode(Head(s)))
         \o quote(Tail(s))

\* str(n) for a non-negative int.
RECURSIVE IntStr(_)
IntStr(n) ==
    IF n < 10 THEN <<HexDigit(n)>>
    ELSE IntStr(n \div 10) \o <<HexDigit(n % 10)>>

\* str(arg) for a positional argument: a str or an int, tagged.
str(arg) == IF arg.t = "int" THEN IntStr(arg.v) ELSE arg.v

\* "/".join(segments)
RECURSIVE Join(_)
Join(segments) ==
    IF Len(segments) = 0 THEN <<>>
    ELSE IF Len(segments) = 1 THEN segments[1]
    ELSE segments[1] \o <<"/">> \o Join(Tail(segments))

\* c in s, for a one-character c
Contains(s, c) == \E i \in 1..Len(s) : s[i] = c

\* Python truthiness of an Optional[str]
Truthy(s) == s # None /\ s # <<>>

(***************************************************************************)
(* ProxmoxAuthToken and request headers.                                   *)
(***************************************************************************)
\* ProxmoxAuthToken(ticket, csrf, token_header), every field defaulting to None
ProxmoxAuthToken(ticket, csrf, token_header) ==
    [ticket |-> ticket, csrf |-> csrf, token_header |-> token_header]

\* An Optional[ProxmoxAuthToken] is a sequence of length 0 (None) or 1.
NoAuth == <<>>

\* A headers dict over the four keys the client ever sets; None: key absent.
EmptyHeaders ==
    [Accept |-> None, Authorization |-> None, Cookie |-> None, CSRFPreventionToken |-> None]

\* ProxmoxAuthToken.apply(headers)
apply(token, headers) ==
    LET h1 == IF Truthy(token.token_header)
              THEN [headers EXCEPT !.Authorization = token.token_header]
              ELSE headers
        h2 == IF Truthy(token.ticket)
              THEN [h1 EXCEPT !.Cookie =
                       <<"P","V","E","A","u","t","h","C","o","o","k","i","e","=">> \o token.ticket]
              ELSE h1
    IN  IF Truthy(token.csrf)
        THEN [h2 EXCEPT !.CSRFPreventionToken = token.csrf]
        ELSE h2

(***************************************************************************)
(* Session configuration of the one Connector of the model.                *)
(***************************************************************************)
hostname == <<"p","v","e">>
port == 8006

\* ConnectorAPI.__init__: self.baseurl
baseurl == <<"h","t","t","p","s",":","/","/">> \o hostname \o <<":">> \o IntStr(port)
           \o <<"/","a","p","i","2","/","j","s","o","n">>

(***************************************************************************)
(* The server: what one HTTP call can be answered with.                    *)
(***************************************************************************)
\* The value under "data": null, a dict with any of the two ticket fields
\* (None: the key is absent), or a non-empty list.
DataValue(t, ticket, csrf) == [t |-> t, ticket |-> ticket, csrf |-> csrf]

srv_ticket == <<"T","1">>
srv_csrf == <<"C","1">>

\* A key of the data object that is present with the JSON value null;
\* response.json() turns it into None.
JsonNull == <<"<null>">>
FromJson(x) == IF x = JsonNull THEN None ELSE x

DataValues ==
    { DataValue("null", None, None),
      DataValue("dict", JsonNull, srv_csrf),
      DataValue("list", None, None),
      DataValue("dict", None, None),
      DataValue("dict", srv_ticket, None),
      DataValue("dict", None, srv_csrf),
      DataValue("dict", srv_ticket, srv_csrf) }

\* A body: not JSON, JSON that is not an object, or a JSON object with or
\* without the "data" key.
Body(k, has_data, data) == [k |-> k, has_data |-> has_data, data |-> data]

Bodies ==
    { Body("nonjson", FALSE, DataValue("null", None, None)),
      Body("array", FALSE, DataValue("null", None, None)),
      Body("object", FALSE, DataValue("null", None, None)) }
    \cup { Body("object", TRUE, d) : d \in DataValues }

Statuses == {200, 401, 403, 500}

\* A response, or a network-level failure (net = TRUE: DNS, refusal, timeout).
Response(net, status, body) == [net |-> net, status |-> status, body |-> body]

Responses ==
    { Response(TRUE, 0, Body("nonjson", FALSE, DataValue("null", None, None))) }
    \cup { Response(FALSE, 200, b) : b \in Bodies }
    \cup { Response(FALSE, st, Body("nonjson", FALSE, DataValue("null", None, None)))
             : st \in Statuses \ {200} }
    \cup { Response(FALSE, 500, Body("object", TRUE, DataValue("dict", srv_ticket, srv_csrf))) }

\* response.raise_for_status(): HTTPError for 400 <= status < 600
raise_for_status(resp) == resp.status >= 400 /\ resp.status < 600

\* Python truthiness of the value under "data" (None when the key is absent)
DataTruthy(body) ==
    /\ body.has_data
    /\ \/ body.data.t = "list"
       \/ body.data.t = "dict" /\ (body.data.ticket # None \/ body.data.csrf # None)

(***************************************************************************)
(* Parameters: a dict is a set of <<key, value>> pairs.                    *)
(***************************************************************************)
NoneParams == {<<"<None>">>}
EmptyDict == {}

\* Python's  d or None  and  d or {}
OrNone(d) == IF d = NoneParams \/ d = EmptyDict THEN NoneParams ELSE d
OrEmpty(d) == IF d = NoneParams \/ d = EmptyDict THEN EmptyDict ELSE d

\* One recorded call on the shared requests.Session.
Request(method, url, params, data, headers) ==
    [method |-> method, url |-> url, params |-> params, data |-> data, headers |-> headers]

\* What a call ends with: the exception raised ("none": normal return) and the
\* value returned.
PyNone == DataValue("None", None, None)
Outcome(exc, ret) == [exc |-> exc, ret |-> ret]

(***************************************************************************)
(* ConnectorAPI._request                                                   *)
(***************************************************************************)
\* A request whose parameters go into the query string whatever the method.
RequestOf_query(auth, base, method, filter_path, params) ==
    LET headers == [EmptyHeaders EXCEPT !.Accept =
                       <<"a","p","p","l","i","c","a","t","i","o","n","/","j","s","o","n">>]
    IN  Request(method, base \o <<"/">> \o filter_path, params, NoneParams,
                IF auth # NoAuth THEN apply(auth[1], headers) ELSE headers)

\* The request _request hands to session.request.
RequestOf(auth, base, method, filter_path, params) ==
    LET headers == [EmptyHeaders EXCEPT !.Accept =
                       <<"a","p","p","l","i","c","a","t","i","o","n","/","j","s","o","n">>]
    IN  Request(method,
                base \o <<"/">> \o filter_path,
                IF method = "GET" THEN params ELSE NoneParams,
                IF method # "GET" THEN params ELSE NoneParams,
                IF auth # NoAuth THEN apply(auth[1], headers) ELSE headers)

\* How _request ends, given the server's answer.
RequestOutcome_getitem(resp) ==
    IF resp.net THEN Outcome("ProxmoxConnectionError", PyNone)
    ELSE IF raise_for_status(resp)
         THEN (IF resp.status \in {401, 403}
               THEN Outcome("ProxmoxAuthError", PyNone)
               ELSE Outcome("ProxmoxConnectionError", PyNone))
    ELSE IF resp.body.k = "nonjson" THEN Outcome("ProxmoxError", PyNone)
    ELSE IF resp.body.k # "object" THEN Outcome("TypeError", PyNone)
    ELSE IF ~resp.body.has_data THEN Outcome("KeyError", PyNone)
    ELSE IF resp.body.data.t # "null" THEN Outcome("none", resp.body.data)
    ELSE Outcome("none", PyNone)

RequestOutcome(resp) ==
    IF resp.net THEN Outcome("ProxmoxConnectionError", PyNone)
    ELSE IF raise_for_status(resp)
         THEN (IF resp.status \in {401, 403}
               THEN Outcome("ProxmoxAuthError", PyNone)
               ELSE Outcome("ProxmoxConnectionError", PyNone))
    ELSE IF resp.body.k = "nonjson" THEN Outcome("ProxmoxError", PyNone)
    ELSE IF resp.body.k # "object" THEN Outcome("AttributeError", PyNone)
    ELSE IF resp.body.has_data /\ resp.body.data.t # "null"
         THEN Outcome("none", resp.body.data)
    ELSE Outcome("none", PyNone)

(***************************************************************************)
(* State.                                                                  *)
(***************************************************************************)
VARIABLES
    conn_auth,   \* Connector._auth: NoAuth or <<token>>
    wrappers,    \* the caller's Proxmox(conn) and Node(conn, n), once made
    cur,         \* the value the caller's attribute chain has reached
    last,        \* the operation just performed and how it ended
    adapter,     \* ProxmoxAgentAdapter._api and the clients its factory has produced
    adapter_last, \* the adapter operation just performed and how it ended
    inflight     \* a _request on the Connector that runs beside the other calls

vars == <<conn_auth, wrappers, cur, last, adapter, adapter_last, inflight>>

\* A Proxmox or Node object; made = FALSE while the caller has not built it.
Wrapper(made, cls, auth, base) ==
    [made |-> made, cls |-> cls, _auth |-> auth, baseurl |-> base]

NoWrapper == Wrapper(FALSE, "none", NoAuth, <<>>)

\* A value of the attribute chain: an AttrMethod (or a verb subclass) with its
\* parent and method_name; a reference to a wrapper (cls Proxmox / Node); or a
\* bound ConnectorAPI method of a wrapper (cls "method", method_name its
\* name).  named: the identifiers and arguments the chain has named so far.
Value(cls, parent, method_name, named) ==
    [cls |-> cls, parent |-> parent, method_name |-> method_name, named |-> named]

NoValue == Value("none", "none", None, <<>>)

\* The record of one operation.
\* auth0: the Connector's _auth when the operation began.
Last(op, target, before, key, args, kwargs, resp, out, result, fresh, requests) ==
    [op |-> op, target |-> target, before |-> before, key |-> key, args |-> args,
     kwargs |-> kwargs, resp |-> resp, out |-> out, result |-> result,
     fresh |-> fresh, requests |-> requests, auth0 |-> conn_auth]

NoResponse == Response(FALSE, 0, Body("nonjson", FALSE, DataValue("null", None, None)))

\* A _request on the Connector taken statement by statement: pc is the
\* statement it is about to run, tok the token its second read of self._auth
\* returned, headers the dict built so far; begin is the token stored when it
\* started and stored the tokens the Connector has held since then.
InFlight(pc, tok, headers, begin, stored) ==
    [pc |-> pc, tok |-> tok, headers |-> headers, begin |-> begin, stored |-> stored]

Idle == InFlight("idle", NoAuth, EmptyHeaders, NoAuth, {})

\* self._auth = token, seen from the request in flight.
Observe(a) ==
    IF inflight.pc \in {"idle", "sent"} THEN inflight
    ELSE [inflight EXCEPT !.stored = @ \cup {a}]

\* ProxmoxAgentAdapter: the values of agent/adapter.py.

\* self._api is None, or the n-th client the factory returned.
NoClient == 0

AdapterActionPlan(action, parameters, dry_run, notes) ==
    [action |-> action, parameters |-> parameters, dry_run |-> dry_run,
     notes |-> notes, evidence |-> <<>>]

NoPlan == AdapterActionPlan("none", {}, TRUE, "")

\* The keyword arguments of plan_vm_creation; dry_run and metadata are
\* sequences of length 0 when the caller leaves them out.
PlanArgs(node, vm_id, name, cpu, memory_mb, disk_gb, dry_run, metadata) ==
    [node |-> node, vm_id |-> vm_id, name |-> name, cpu |-> cpu,
     memory_mb |-> memory_mb, disk_gb |-> disk_gb, dry_run |-> dry_run,
     metadata |-> metadata]

NoArgs == PlanArgs("", 0, "", 0, 0, 0, <<>>, <<>>)

\* One call the adapter makes on a client: the path it names and the verb.
ClientCall(client, path, verb) == [client |-> client, path |-> path, verb |-> verb]

AdapterLast(op, force, held0, invoked, exc, ret, calls, plan, args) ==
    [op |-> op, force |-> force, held0 |-> held0, invoked |-> invoked, exc |-> exc,
     ret |-> ret, calls |-> calls, plan |-> plan, args |-> args]

Init ==
    /\ inflight = Idle
    /\ adapter = [_api |-> NoClient, made |-> 0, connected |-> FALSE]
    /\ adapter_last = AdapterLast("init", FALSE, NoClient, 0, "none", NoClient, <<>>,
                                  NoPlan, NoArgs)
    /\ conn_auth = NoAuth
    /\ wrappers = [w \in {"proxmox", "node"} |-> NoWrapper]
    /\ cur = NoValue
    /\ last = [op |-> "init", target |-> "none", before |-> NoValue, key |-> None,
               args |-> <<>>, kwargs |-> NoneParams, resp |-> NoResponse,
               out |-> Outcome("none", PyNone), result |-> NoValue, fresh |-> FALSE,
               requests |-> <<>>, auth0 |-> NoAuth]

(***************************************************************************)
(* Connector.get_auth_token and Connector.use_api_token                    *)
(***************************************************************************)
\* How get_auth_token ends, given the server's answer to the ticket request.
TicketOutcome(resp) ==
    IF resp.net THEN Outcome("ProxmoxConnectionError", PyNone)
    ELSE IF raise_for_status(resp) THEN Outcome("ProxmoxAuthError", PyNone)
    ELSE IF resp.body.k = "nonjson" THEN Outcome("ValueError", PyNone)
    ELSE IF resp.body.k # "object" THEN Outcome("AttributeError", PyNone)
    ELSE IF ~DataTruthy(resp.body) THEN Outcome("ProxmoxAuthError", PyNone)
    ELSE IF resp.body.data.t # "dict" THEN Outcome("TypeError", PyNone)
    ELSE IF resp.body.data.ticket = None \/ resp.body.data.csrf = None
         THEN Outcome("KeyError", PyNone)
    ELSE Outcome("none", PyNone)

\* The ticket request get_auth_token posts.
TicketRequest(username, password) ==
    Request("POST",
            baseurl \o <<"/","a","c","c","e","s","s","/","t","i","c","k","e","t">>,
            NoneParams,
            {<<"username", username>>, <<"password", password>>},
            EmptyHeaders)

\* A login that forgets the stored token when it fails.
get_auth_token_reset(username, password, resp) ==
    LET out == TicketOutcome(resp)
    IN  /\ conn_auth' = IF out.exc = "none"
                        THEN <<ProxmoxAuthToken(FromJson(resp.body.data.ticket),
                                                FromJson(resp.body.data.csrf), None)>>
                        ELSE NoAuth
        /\ last' = Last("get_auth_token", "conn", NoValue, None, <<>>, NoneParams, resp,
                        out, NoValue, FALSE, <<TicketRequest(username, password)>>)
        /\ inflight' = Observe(conn_auth')
        /\ UNCHANGED <<wrappers, cur, adapter, adapter_last>>

get_auth_token(username, password, resp) ==
    LET out == TicketOutcome(resp)
    IN  /\ conn_auth' = IF out.exc = "none"
                        THEN <<ProxmoxAuthToken(FromJson(resp.body.data.ticket),
                                                FromJson(resp.body.data.csrf), None)>>
                        ELSE conn_auth
        /\ last' = Last("get_auth_token", "conn", NoValue, None, <<>>, NoneParams, resp,
                        out, NoValue, FALSE, <<TicketRequest(username, password)>>)
        /\ inflight' = Observe(conn_auth')
        /\ UNCHANGED <<wrappers, cur, adapter, adapter_last>>

\* The realm check replaced by a check that the username is not empty.
HasRealm_nonempty(username) == username # <<>>

\* Whether use_api_token accepts the username.
HasRealm(username) == Contains(username, "@")

TokenHeader_colon(username, token_name, token_value) ==
    <<"P","V","E","A","P","I","T","o","k","e","n","=">> \o username \o <<":">>
    \o token_name \o <<"=">> \o token_value

TokenHeader(username, token_name, token_value) ==
    <<"P","V","E","A","P","I","T","o","k","e","n","=">> \o username \o <<"!">>
    \o token_name \o <<"=">> \o token_value

use_api_token(username, token_name, token_value) ==
    /\ conn_auth' = IF HasRealm(username)
                    THEN <<ProxmoxAuthToken(None, None,
                                            TokenHeader(username, token_name, token_value))>>
                    ELSE conn_auth
    /\ last' = Last("use_api_token", "conn", NoValue, username,
                    << [t |-> "str", v |-> token_name], [t |-> "str", v |-> token_value] >>,
                    NoneParams, NoResponse,
                    IF HasRealm(username) THEN Outcome("none", PyNone)
                    ELSE Outcome("ProxmoxAuthError", PyNone),
                    NoValue, FALSE, <<>>)
    /\ inflight' = Observe(conn_auth')
    /\ UNCHANGED <<wrappers, cur, adapter, adapter_last>>

(***************************************************************************)
(* Proxmox.__init__ and Node.__init__                                      *)
(***************************************************************************)
\* The _auth a new wrapper holds.
WrapperAuth == conn_auth

NewProxmox ==
    /\ ~wrappers["proxmox"].made
    /\ wrappers' = [wrappers EXCEPT !["proxmox"] = Wrapper(TRUE, "Proxmox", WrapperAuth, baseurl)]
    /\ last' = Last("Proxmox", "proxmox", NoValue, None, <<>>, NoneParams, NoResponse,
                    Outcome("none", PyNone), NoValue, FALSE, <<>>)
    /\ UNCHANGED <<conn_auth, cur, adapter, adapter_last, inflight>>

NewNode(n) ==
    /\ ~wrappers["node"].made
    /\ wrappers' = [wrappers EXCEPT !["node"] =
                       Wrapper(TRUE, "Node", WrapperAuth,
                               baseurl \o <<"/","n","o","d","e","s","/">> \o n)]
    /\ last' = Last("Node", "node", NoValue, n, <<>>, NoneParams, NoResponse,
                    Outcome("none", PyNone), NoValue, FALSE, <<>>)
    /\ UNCHANGED <<conn_auth, cur, adapter, adapter_last, inflight>>

(***************************************************************************)
(* ConnectorAPI.get / post / put / delete                                  *)
(***************************************************************************)
\* self._auth and self.baseurl of the object a transport call is made on
SelfAuth(t) == IF t = "conn" THEN conn_auth ELSE wrappers[t]._auth
SelfBase(t) == IF t = "conn" THEN baseurl ELSE wrappers[t].baseurl

\* The params each verb method hands to _request.
VerbParams(method, params) == IF method = "GET" THEN params ELSE OrEmpty(params)

\* The calls on the session one _request makes.
Send(t, method, filter_path, params) ==
    <<RequestOf(SelfAuth(t), SelfBase(t), method, filter_path, VerbParams(method, params))>>

\* conn.get(path, params), root.post(path, params), ...: a direct call of a
\* transport method on the Connector or on a wrapper.
Transport(t, method, filter_path, params, resp) ==
    /\ t # "conn" => wrappers[t].made
    /\ last' = Last("transport", t, NoValue, filter_path, <<>>, params, resp,
                    RequestOutcome(resp), NoValue, FALSE,
                    Send(t, method, filter_path, params))
    /\ UNCHANGED <<conn_auth, wrappers, cur, adapter, adapter_last, inflight>>

(***************************************************************************)
(* Attribute access: Python's lookup, Proxmox.__getattr__ and              *)
(* AttrMethod.__getattr__                                                  *)
(***************************************************************************)
s_get == <<"g","e","t">>
s_post == <<"p","o","s","t">>
s_put == <<"p","u","t">>
s_delete == <<"d","e","l","e","t","e">>

\* Names Python finds on a Proxmox / Node object without calling __getattr__:
\* the instance attributes set by the constructors and the methods of
\* ConnectorAPI.
WrapperAttrs ==
    { <<"h","o","s","t">>, <<"p","o","r","t">>,
      <<"v","e","r","i","f","y","_","s","s","l">>,
      <<"b","a","s","e","u","r","l">>, <<"s","e","s","s","i","o","n">>,
      <<"_","a","u","t","h">>, <<"c","o","n","n">> }
NodeAttrs == WrapperAttrs \cup { <<"n","o","d","e">> }
TransportMethods == { s_get, s_post, s_put, s_delete }

\* Names Python finds on an AttrMethod without calling __getattr__.
s_parent == <<"p","a","r","e","n","t">>
s_method_name == <<"m","e","t","h","o","d","_","n","a","m","e">>

AttrClasses ==
    {"AttrMethod", "AttrGetMethod", "AttrPostMethod", "AttrPutMethod", "AttrDeleteMethod"}

\* A result that is no chain value: a str, an int, the session, the Connector.
Other == Value("other", "none", None, <<>>)

\* Proxmox.__getattr__(key), reached only for names normal lookup misses
ProxmoxGetattr(w, key, named) == Value("AttrMethod", w, key, Append(named, key))

\* AttrMethod.__getattr__(key)
AttrGetattr(v, key) ==
    LET encoded == quote(key)
    IN  IF encoded = s_post THEN Value("AttrPostMethod", v.parent, v.method_name, v.named)
        ELSE IF encoded = s_put THEN Value("AttrPutMethod", v.parent, v.method_name, v.named)
        ELSE IF encoded = s_delete THEN Value("AttrDeleteMethod", v.parent, v.method_name, v.named)
        ELSE IF encoded = s_get THEN Value("AttrGetMethod", v.parent, v.method_name, v.named)
        ELSE Value("AttrMethod", v.parent, Join(<<v.method_name, encoded>>),
                   Append(v.named, key))

\* getattr(v, key): [value, fresh, exc]
Lookup(v, key) ==
    IF v.cls \in {"Proxmox", "Node"}
    THEN IF key \in TransportMethods
         THEN [value |-> Value("method", v.parent, key, v.named), fresh |-> TRUE, exc |-> "none"]
         ELSE IF key \in (IF v.cls = "Node" THEN NodeAttrs ELSE WrapperAttrs)
         THEN [value |-> Other, fresh |-> FALSE, exc |-> "none"]
         ELSE [value |-> ProxmoxGetattr(v.parent, key, v.named), fresh |-> TRUE, exc |-> "none"]
    ELSE IF v.cls \in AttrClasses
    THEN IF key = s_parent
         THEN [value |-> Value(wrappers[v.parent].cls, v.parent, None, Append(v.named, key)),
               fresh |-> FALSE, exc |-> "none"]
         ELSE IF key = s_method_name
         THEN [value |-> Other, fresh |-> FALSE, exc |-> "none"]
         ELSE [value |-> AttrGetattr(v, key), fresh |-> TRUE, exc |-> "none"]
    ELSE [value |-> Other, fresh |-> FALSE, exc |-> "AttributeError"]

\* The value an operation is applied to: a wrapper the caller holds, or cur.
Target(t) == IF t = "cur" THEN cur ELSE Value(wrappers[t].cls, t, None, <<>>)

HasTarget(t) == IF t = "cur" THEN cur # NoValue ELSE wrappers[t].made

\* x = t.key
Getattr(t, key) ==
    /\ HasTarget(t)
    /\ LET v == Target(t)
           r == Lookup(v, key)
       IN  /\ Len(r.value.named) <= MaxSteps
           /\ cur' = IF r.exc = "none" /\ r.value # Other THEN r.value ELSE cur
           /\ last' = Last("getattr", t, v, key, <<>>, NoneParams, NoResponse,
                           Outcome(r.exc, PyNone), r.value, r.fresh, <<>>)
    /\ UNCHANGED <<conn_auth, wrappers, adapter, adapter_last, inflight>>

(***************************************************************************)
(* AttrMethod.__call__ and the verb subclasses' __call__                   *)
(***************************************************************************)
\* The HTTP method a call of the value issues.
MethodOf(cls) ==
    CASE cls = "AttrPostMethod" -> "POST"
      [] cls = "AttrPutMethod" -> "PUT"
      [] cls = "AttrDeleteMethod" -> "DELETE"
      [] OTHER -> "GET"

\* [quote(str(arg)) for arg in args]
QuotedArgs(args) == [i \in 1..Len(args) |-> quote(str(args[i]))]
StrArgs(args) == [i \in 1..Len(args) |-> str(args[i])]

\* Whether v(*args, **kwargs) reaches the transport.
Sends(v, args) == v.cls \in AttrClasses /\ args = <<>>

\* AttrMethod.__call__ with positional arguments
Extend(v, args) ==
    Value("AttrMethod", v.parent, Join(<<v.method_name>> \o QuotedArgs(args)),
          v.named \o StrArgs(args))

\* x = cur(*args, **kwargs)
Call(args, kwargs, resp) ==
    /\ cur # NoValue
    /\ resp = NoResponse <=> ~Sends(cur, args)
    /\ cur.cls = "method" => args = <<>>
    /\ IF Sends(cur, args)
       THEN /\ last' = Last("call", "cur", cur, None, args, kwargs, resp,
                            RequestOutcome(resp), NoValue, FALSE,
                            Send(cur.parent, MethodOf(cur.cls), cur.method_name,
                                 OrNone(kwargs)))
            /\ cur' = cur
       ELSE IF cur.cls = "AttrMethod"
       THEN /\ Len(cur.named) + Len(args) <= MaxSteps
            /\ last' = Last("call", "cur", cur, None, args, kwargs, resp,
                            Outcome("none", PyNone), Extend(cur, args), TRUE, <<>>)
            /\ cur' = Extend(cur, args)
       ELSE /\ last' = Last("call", "cur", cur, None, args, kwargs, resp,
                            Outcome("TypeError", PyNone), NoValue, FALSE, <<>>)
            /\ cur' = cur
    /\ UNCHANGED <<conn_auth, wrappers, adapter, adapter_last, inflight>>

(***************************************************************************)
(* Inputs and specifications.                                              *)
(***************************************************************************)
Usernames == { <<"u","@","p">>, <<"u">> }
Passwords == { <<"p","w">> }
TokenNames == { <<"d">>, <<"d","@">> }
TokenValues == { <<"a">> }
NodeNames == { <<"p","v","e">> }

s_nodes == <<"n","o","d","e","s">>

NoKwargs == EmptyDict
SomeKwargs == {<<"full", <<"1">>>>}
Methods == {"GET", "POST", "PUT", "DELETE"}
Targets == {"proxmox", "node", "cur"}

\* What a transport call can be answered with: the ticket fields of "data"
\* make no difference to it.
TransportResponses ==
    { r \in Responses : r.body.has_data =>
                          r.body.data \in {DataValue("null", None, None),
                                           DataValue("dict", srv_ticket, srv_csrf)} }

\* Identifiers a chain names, and the positional arguments of a call.
Keys == { s_nodes, s_get, s_post, s_put, s_delete, s_parent, s_method_name,
          <<"h","o","s","t">>, <<"a"," ","b">> }
ArgLists ==
    { <<>>,
      << [t |-> "str", v |-> <<"a","/","b">>] >>,
      << [t |-> "str", v |-> <<"p","v","e">>], [t |-> "int", v |-> 100] >> }

\* The answers the chain is explored with: data, an error status, no answer.
ChainResponses ==
    { Response(FALSE, 200, Body("object", TRUE, DataValue("dict", srv_ticket, srv_csrf))),
      Response(FALSE, 500, Body("nonjson", FALSE, DataValue("null", None, None))),
      Response(TRUE, 0, Body("nonjson", FALSE, DataValue("null", None, None))) }

\* The authentication and transport layer: the two authentication calls,
\* the wrappers, direct transport calls, and the chain  w.nodes()  .
Next ==
    \/ \E p \in Passwords, resp \in Responses : get_auth_token(<<"u","@","p">>, p, resp)
    \/ \E u \in Usernames, n \in TokenNames, tv \in TokenValues : use_api_token(u, n, tv)
    \/ NewProxmox
    \/ \E n \in NodeNames : NewNode(n)
    \/ \E t \in {"conn", "proxmox", "node"}, m \in Methods, resp \in TransportResponses :
          Transport(t, m, s_nodes, NoneParams, resp)
    \/ \E t \in {"proxmox", "node"} : Getattr(t, s_nodes)
    \/ \E resp \in ChainResponses : Call(<<>>, NoKwargs, resp)

Spec == Init /\ [][Next]_vars

\* Node identifiers the chain is explored with: one that needs no encoding
\* and one that does.
ChainNodeNames == NodeNames \cup { <<"a","?","b">> }

\* The attribute chain alone, on an unauthenticated Connector.
NextChain ==
    \/ NewProxmox
    \/ \E n \in ChainNodeNames : NewNode(n)
    \/ \E t \in Targets, key \in Keys : Getattr(t, key)
    \/ \E args \in ArgLists, kw \in {NoKwargs, SomeKwargs},
          resp \in ChainResponses \cup {NoResponse} :
          Call(args, kw, resp)

SpecChain == Init /\ [][NextChain]_vars

(***************************************************************************)
(* Properties.                                                             *)
(***************************************************************************)
\* The spec's error kinds, as the library's exceptions: AuthError is
\* ProxmoxAuthError, ConnectionError is ProxmoxConnectionError, ProtocolError
\* is the ProxmoxError that _request raises for a malformed body.
AuthError == "ProxmoxAuthError"
ConnectionError == "ProxmoxConnectionError"
ProtocolError == "ProxmoxError"

\* The headers a request carries when it is authenticated with the token
\* stored on the Connector.
StoredTokenHeaders ==
    apply(conn_auth[1],
          [EmptyHeaders EXCEPT !.Accept =
              <<"a","p","p","l","i","c","a","t","i","o","n","/","j","s","o","n">>])

\* The operation just performed went through the transport.
IsRequestOp == last.op \in {"transport", "call"} /\ last.requests # <<>>

\* C1: once an authentication call has stored a token on the Connector, every
\* request made through the Connector, a Proxmox or a Node carries the headers
\* of the stored token, whether the wrapper was made before or after.
C1_RequestsCarryStoredToken ==
    (IsRequestOp /\ conn_auth # NoAuth)
        => \A i \in 1..Len(last.requests) : last.requests[i].headers = StoredTokenHeaders

\* C2: a ticket request answered with an error status raises AuthError for
\* 401 and 403 and ConnectionError for any other status.
C2_TicketStatusClassified ==
    (last.op = "get_auth_token" /\ ~last.resp.net /\ last.resp.status >= 400)
        => last.out.exc = (IF last.resp.status \in {401, 403} THEN AuthError
                           ELSE ConnectionError)

\* C3: a ticket request answered with a success status and a body that is
\* not JSON raises ProtocolError and stores no token.
C3_TicketMalformedBody ==
    (last.op = "get_auth_token" /\ ~last.resp.net /\ last.resp.status = 200
       /\ last.resp.body.k = "nonjson")
        => (last.out.exc = ProtocolError /\ conn_auth = last.auth0)

\* The "data" of a JSON object body has both ticket fields.
HasTicketData(body) ==
    /\ body.has_data
    /\ body.data.t = "dict"
    /\ body.data.ticket # None
    /\ body.data.csrf # None

\* C4: a successful ticket response whose data is absent, null, empty or has
\* only one of ticket and CSRFPreventionToken raises AuthError and stores no
\* token.
C4_TicketMissingData ==
    (last.op = "get_auth_token" /\ ~last.resp.net /\ last.resp.status = 200
       /\ last.resp.body.k = "object"
       /\ (last.resp.body.has_data => last.resp.body.data.t \in {"null", "dict"})
       /\ ~HasTicketData(last.resp.body))
        => (last.out.exc = AuthError /\ conn_auth = last.auth0)

\* C5: a transport call ends in exactly one way: AuthError for status 401 or
\* 403, ConnectionError for any other status >= 400 and for a network
\* failure, ProtocolError for a success status with a body that is not JSON,
\* and a normal return otherwise.
C5_TransportClassified ==
    IsRequestOp
        => last.out.exc =
              (IF last.resp.net THEN ConnectionError
               ELSE IF last.resp.status \in {401, 403} THEN AuthError
               ELSE IF last.resp.status >= 400 THEN ConnectionError
               ELSE IF last.resp.body.k = "nonjson" THEN ProtocolError
               ELSE "none")

\* C6: use_api_token with a username without "@" raises AuthError and makes
\* no network call, whatever the token name and value.
C6_TokenAuthNeedsRealm ==
    (last.op = "use_api_token" /\ ~Contains(last.key, "@"))
        => (last.out.exc = AuthError /\ last.requests = <<>>)

C6_Witness ==
    /\ last.op = "use_api_token"
    /\ last.key = <<"u">>
    /\ last.out.exc = AuthError
    /\ conn_auth # NoAuth

\* The value is in the Building state: a root or a plain AttrMethod.
Building(v) == v.cls \in {"Proxmox", "Node", "AttrMethod"}
VerbBound(v) == v.cls \in {"AttrGetMethod", "AttrPostMethod", "AttrPutMethod", "AttrDeleteMethod"}

\* The path a value has accumulated: empty at a root.
PathOf(v) == IF v.cls \in {"Proxmox", "Node"} THEN <<>> ELSE v.method_name

\* A path with one more segment.
WithSegment(path, segment) == IF path = <<>> THEN segment ELSE Join(<<path, segment>>)

\* C7: naming any identifier other than the four verbs on a Building value
\* returns a new Building value whose path is the previous path with the
\* percent-encoded identifier appended.
C7_NamingAppendsSegment ==
    (last.op = "getattr" /\ Building(last.before) /\ last.key \notin TransportMethods)
        => /\ last.out.exc = "none"
           /\ last.fresh
           /\ last.result.cls = "AttrMethod"
           /\ last.result.method_name = WithSegment(PathOf(last.before), quote(last.key))

\* The class each verb name binds.
VerbClass(key) ==
    CASE key = s_get -> "AttrGetMethod"
      [] key = s_post -> "AttrPostMethod"
      [] key = s_put -> "AttrPutMethod"
      [] key = s_delete -> "AttrDeleteMethod"

\* C8: naming a verb on a Building value, the root included, yields the
\* VerbBound value of that verb over the path accumulated so far, and calling
\* a VerbBound value sends that verb's request to that path.
C8_VerbBindsPath ==
    /\ (last.op = "getattr" /\ Building(last.before) /\ last.key \in TransportMethods)
          => /\ last.result.cls = VerbClass(last.key)
             /\ PathOf(last.result) = PathOf(last.before)
    /\ (last.op = "call" /\ VerbBound(last.before) /\ last.args = <<>>)
          => /\ Len(last.requests) = 1
             /\ last.requests[1].method = MethodOf(last.before.cls)
             /\ last.requests[1].url =
                   wrappers[last.before.parent].baseurl \o <<"/">> \o last.before.method_name

\* C9: a VerbBound value is final: naming anything on it yields no further
\* chain value.
C9_VerbBoundFinal ==
    (last.op = "getattr" /\ VerbBound(last.before))
        => last.result.cls \notin AttrClasses \cup {"Proxmox", "Node", "method"}

\* The segments the chain has named, percent-encoded.
NamedSegments(v) == [i \in 1..Len(v.named) |-> quote(v.named[i])]

\* C10: a chain of naming and positional-argument steps ended by a call sends
\* exactly one request: the steps before send none, and the call sends one to
\* the "/"-join of the segments named.
C10_OneRequestPerChain ==
    /\ (last.op = "getattr" \/ (last.op = "call" /\ last.args # <<>>))
          => last.requests = <<>>
    /\ (last.op = "call" /\ last.before.cls = "AttrMethod" /\ last.args = <<>>)
          => /\ Len(last.requests) = 1
             /\ last.requests[1].method = "GET"
             /\ last.requests[1].url =
                   wrappers[last.before.parent].baseurl \o <<"/">>
                   \o Join(NamedSegments(last.before))

\* A step of the chain: naming on a Building or VerbBound value, or a call of
\* a Building value with positional arguments.
ChainTransition ==
    \/ last.op = "getattr" /\ (Building(last.before) \/ VerbBound(last.before))
    \/ last.op = "call" /\ Building(last.before) /\ last.args # <<>>

\* C11: every chain transition returns a fresh value and leaves the value it
\* was applied to, and the shared root, as they were.
C11_TransitionsReturnFreshValues ==
    ChainTransition
        => /\ last.out.exc = "none"
           /\ last.fresh
           /\ last.result # last.before
           /\ (last.target = "cur" /\ last.before.parent \in {"proxmox", "node"})
                 => wrappers[last.before.parent].made

\* The value  Proxmox(conn).nodes(n)  followed by the chain that named the
\* segments of  named  (none of them an attribute of the values).
GenericNodeValue(n, named) ==
    Extend(Extend(ProxmoxGetattr("proxmox", s_nodes, <<>>), << [t |-> "str", v |-> n] >>),
           [i \in 1..Len(named) |-> [t |-> "str", v |-> named[i]]])

\* C12: the request a chain sends from Node(conn, n) is the request the same
\* chain sends from Proxmox(conn).nodes(n): same verb, URL, parameters and
\* headers.
C12_NodeIsGenericRootAtNode ==
    (last.op = "call" /\ last.requests # <<>> /\ last.before.parent = "node"
       /\ \A i \in 1..Len(last.before.named) : last.before.named[i] # s_parent)
        => \A n \in ChainNodeNames :
              wrappers["node"].baseurl = baseurl \o <<"/","n","o","d","e","s","/">> \o n
                 => last.requests[1] =
                       RequestOf(wrappers["node"]._auth, baseurl, MethodOf(last.before.cls),
                                 GenericNodeValue(n, last.before.named).method_name,
                                 VerbParams(MethodOf(last.before.cls), OrNone(last.kwargs)))

\* The verb a value is bound to; a Building value sends GET.
BoundVerb(v) ==
    CASE v.cls = "AttrPostMethod" -> "POST"
      [] v.cls = "AttrPutMethod" -> "PUT"
      [] v.cls = "AttrDeleteMethod" -> "DELETE"
      [] v.cls \in {"AttrGetMethod", "AttrMethod"} -> "GET"

\* C13: the request of a terminal call uses the bound verb (GET on a Building
\* value) and carries the keyword arguments as query parameters for GET and
\* as the body, never as query parameters, for POST, PUT and DELETE.
C13_VerbAndParameters ==
    (last.op = "call" /\ last.requests # <<>>)
        => /\ last.requests[1].method = BoundVerb(last.before)
           /\ BoundVerb(last.before) = "GET"
                 => /\ last.requests[1].params =
                          (IF last.kwargs = {} THEN NoneParams ELSE last.kwargs)
                    /\ last.requests[1].data = NoneParams
           /\ BoundVerb(last.before) # "GET"
                 => /\ last.requests[1].params = NoneParams
                    /\ last.requests[1].data = last.kwargs

C13_Witness ==
    /\ last.op = "call"
    /\ last.before.cls = "AttrPostMethod"
    /\ last.kwargs = SomeKwargs
    /\ Len(last.requests) = 1
    /\ last.requests[1].method = "POST"
    /\ last.requests[1].data = SomeKwargs

\* C20: a call with positional arguments on a Building value appends the
\* encoded arguments and sends nothing, with or without keyword arguments;
\* only a call without positional arguments sends the request.
C20_PositionalArgsOnlyExtend ==
    /\ (last.op = "call" /\ Building(last.before) /\ last.args # <<>>)
          => /\ last.out.exc = "none"
             /\ last.requests = <<>>
             /\ last.fresh
             /\ Building(last.result)
             /\ PathOf(last.result) =
                   Join(<<PathOf(last.before)>> \o
                        [i \in 1..Len(last.args) |-> quote(str(last.args[i]))])
    /\ (last.op = "call" /\ last.requests # <<>>) => last.args = <<>>

\* C14: for a user containing "@", use_api_token stores a token whose header
\* is "PVEAPIToken={user}!{token_name}={token_value}" and sends no request.
C14_TokenHeaderFormat ==
    (last.op = "use_api_token" /\ Contains(last.key, "@"))
        => /\ last.out.exc = "none"
           /\ last.requests = <<>>
           /\ Len(conn_auth) = 1
           /\ conn_auth[1].token_header =
                 <<"P","V","E","A","P","I","T","o","k","e","n","=">> \o last.key
                 \o <<"!">> \o last.args[1].v \o <<"=">> \o last.args[2].v

C14_Witness ==
    /\ last.op = "use_api_token"
    /\ last.key = <<"u","@","p">>
    /\ last.args[1].v = <<"d","@">>
    /\ conn_auth # NoAuth
    /\ conn_auth[1].token_header =
          <<"P","V","E","A","P","I","T","o","k","e","n","=","u","@","p","!","d","@","=","a">>

\* C15: a Transport call answered with a success status and a JSON object
\* without the "data" key returns None and raises nothing, for every verb.
C15_NoDataKeyReturnsNone ==
    (IsRequestOp /\ ~last.resp.net /\ last.resp.status = 200
       /\ last.resp.body.k = "object" /\ ~last.resp.body.has_data)
        => (last.out.exc = "none" /\ last.out.ret = PyNone)

C15_Witness ==
    /\ last.op = "transport"
    /\ last.requests # <<>>
    /\ last.requests[1].method = "DELETE"
    /\ last.resp.status = 200
    /\ last.resp.body.k = "object"
    /\ ~last.resp.body.has_data
    /\ last.out = Outcome("none", PyNone)

\* C19: the stored token is absent, or has ticket and csrf and no header, or
\* has a header and neither ticket nor csrf; an authentication call that
\* succeeds leaves no field of the previous token.
C19_OneAuthMode ==
    \/ conn_auth = NoAuth
    \/ /\ conn_auth[1].ticket # None
       /\ conn_auth[1].csrf # None
       /\ conn_auth[1].token_header = None
    \/ /\ conn_auth[1].token_header # None
       /\ conn_auth[1].ticket = None
       /\ conn_auth[1].csrf = None

\* ProxmoxAgentAdapter: the operations of agent/adapter.py.

core == <<conn_auth, wrappers, cur, last, inflight>>

\* connect(force) on the adapter state a; ok tells whether the client factory
\* returns a client or raises.
Connect_unstored(a, force, ok) ==
    IF a._api # NoClient /\ ~force
    THEN [_api |-> a._api, made |-> a.made, invoked |-> 0, exc |-> "none", ret |-> a._api]
    ELSE IF ok
    THEN [_api |-> a._api, made |-> a.made + 1, invoked |-> 1, exc |-> "none",
          ret |-> a.made + 1]
    ELSE [_api |-> a._api, made |-> a.made, invoked |-> 1, exc |-> "FactoryError",
          ret |-> NoClient]

Connect(a, force, ok) ==
    IF a._api # NoClient /\ ~force
    THEN [_api |-> a._api, made |-> a.made, invoked |-> 0, exc |-> "none", ret |-> a._api]
    ELSE IF ok
    THEN [_api |-> a.made + 1, made |-> a.made + 1, invoked |-> 1, exc |-> "none",
          ret |-> a.made + 1]
    ELSE [_api |-> a._api, made |-> a.made, invoked |-> 1, exc |-> "FactoryError",
          ret |-> NoClient]

Connected(c) ==
    [_api |-> c._api, made |-> c.made, connected |-> adapter.connected \/ c.exc = "none"]

connect(force, ok) ==
    LET c == Connect(adapter, force, ok)
    IN  /\ c.made <= MaxClients
        /\ adapter' = Connected(c)
        /\ adapter_last' = AdapterLast("connect", force, adapter._api, c.invoked, c.exc,
                                       c.ret, <<>>, NoPlan, NoArgs)
        /\ UNCHANGED core

api ==
    /\ adapter_last' = AdapterLast("api", FALSE, adapter._api, 0,
                                   IF adapter._api = NoClient THEN "RuntimeError" ELSE "none",
                                   adapter._api, <<>>, NoPlan, NoArgs)
    /\ UNCHANGED <<adapter, core>>

\* A read-only helper: self.connect() and then the calls on the client; fail
\* tells whether the first of them raises.
Read(op, ok, calls, fail) ==
    LET c == Connect(adapter, FALSE, ok)
        made_calls == IF c.exc # "none" THEN <<>>
                      ELSE IF fail THEN SubSeq(calls, 1, 1)
                      ELSE calls
    IN  /\ c.made <= MaxClients
        /\ adapter' = Connected(c)
        /\ adapter_last' = AdapterLast(op, FALSE, adapter._api, c.invoked,
                                       IF c.exc # "none" THEN c.exc
                                       ELSE IF fail THEN "ClientError" ELSE "none",
                                       c.ret,
                                       [i \in 1..Len(made_calls) |->
                                           ClientCall(c.ret, made_calls[i], "get")],
                                       NoPlan, NoArgs)
        /\ UNCHANGED core

health_check(ok, fail) == Read("health_check", ok, << <<"version">> >>, fail)

list_nodes(ok, fail) == Read("list_nodes", ok, << <<"nodes">> >>, fail)

\* node is a sequence of length 0 for None; entries are the node names that
\* client.nodes.get() answers with.
list_vms(node, ok, entries, fail) ==
    IF node # <<>> /\ node[1] # ""
    THEN Read("list_vms", ok, << <<"nodes", node[1], "qemu">> >>, fail)
    ELSE Read("list_vms", ok,
              << <<"nodes">> >> \o [i \in 1..Len(entries) |-> <<"nodes", entries[i], "qemu">>],
              fail)

\* d.update(m) on dicts that are sets of <<key, value>> pairs: the entries of
\* m replace the entries of d with the same key.
Update(d, m) == { p \in d : \A q \in m : q[1] # p[1] } \cup m

Get(d, k) == (CHOOSE p \in d : p[1] = k)[2]

plan_vm_creation(a) ==
    LET plan == AdapterActionPlan(
                    "create_vm",
                    Update({ <<"node", a.node>>, <<"vmid", a.vm_id>>, <<"name", a.name>>,
                             <<"cpu", a.cpu>>, <<"memory_mb", a.memory_mb>>,
                             <<"disk_gb", a.disk_gb>> },
                           OrEmpty(a.metadata)),
                    IF a.dry_run = <<>> THEN TRUE ELSE a.dry_run[1],
                    "Plan generated by ProxmoxAgentAdapter")
    IN  /\ adapter_last' = AdapterLast("plan_vm_creation", FALSE, adapter._api, 0, "none",
                                       NoClient, <<>>, plan, a)
        /\ UNCHANGED <<adapter, core>>

\* An executor that carries out a plan that is not a dry run.
execute_plan_live(plan) ==
    /\ adapter_last' = AdapterLast("execute_plan", FALSE, adapter._api, 0,
                                   IF plan.dry_run THEN "NotImplementedError" ELSE "none",
                                   NoClient,
                                   IF plan.dry_run THEN <<>>
                                   ELSE <<ClientCall(adapter._api, <<"nodes", "pve", "qemu">>, "post")>>,
                                   plan, NoArgs)
    /\ UNCHANGED <<adapter, core>>

execute_plan(plan) ==
    /\ adapter_last' = AdapterLast("execute_plan", FALSE, adapter._api, 0,
                                   "NotImplementedError", NoClient, <<>>, plan, NoArgs)
    /\ UNCHANGED <<adapter, core>>

\* The inputs the adapter is explored with.
Metadatas == { NoneParams, {}, { <<"owner", "ops">> }, { <<"vmid", 999>> } }
DryRuns == { <<>>, <<TRUE>>, <<FALSE>> }
PlanInputs ==
    { PlanArgs("pve", vm_id, "demo-vm", 2, 2048, 32, d, m) :
        vm_id \in {101, 102}, d \in DryRuns, m \in Metadatas }
Plans ==
    { AdapterActionPlan(action, { <<"node", "pve">>, <<"vmid", 101>> }, d, "") :
        action \in {"create_vm", "delete_vm"}, d \in BOOLEAN }
NodeArgs == { <<>>, <<"">>, <<"pve">> }
NodeEntries == { <<>>, <<"pve">>, <<"pve", "pv2">> }

\* The adapter alone, built with auto_connect=False.
NextAdapter ==
    \/ \E force \in BOOLEAN, ok \in BOOLEAN : connect(force, ok)
    \/ api
    \/ \E ok \in BOOLEAN, fail \in BOOLEAN : health_check(ok, fail)
    \/ \E ok \in BOOLEAN, fail \in BOOLEAN : list_nodes(ok, fail)
    \/ \E node \in NodeArgs, ok \in BOOLEAN, entries \in NodeEntries, fail \in BOOLEAN :
          list_vms(node, ok, entries, fail)
    \/ \E a \in PlanInputs : plan_vm_creation(a)
    \/ \E plan \in Plans : execute_plan(plan)

SpecAdapter == Init /\ [][NextAdapter]_vars

ReadOps == {"health_check", "list_nodes", "list_vms"}

C17_ExecuteNeverActs ==
    /\ adapter_last.op = "execute_plan"
          => /\ adapter_last.exc = "NotImplementedError"
             /\ adapter_last.calls = <<>>
             /\ adapter_last.invoked = 0
    /\ \A i \in 1..Len(adapter_last.calls) : adapter_last.calls[i].verb = "get"

C17_Witness ==
    /\ adapter_last.op = "execute_plan"
    /\ adapter_last.plan.action = "delete_vm"
    /\ ~adapter_last.plan.dry_run
    /\ adapter._api # NoClient
    /\ adapter_last.exc = "NotImplementedError"
    /\ adapter_last.calls = <<>>

\* C18: the plan plan_vm_creation returns has parameters equal to the
\* arguments whatever the metadata, is a dry run unless dry_run=False was
\* passed, and no client call is made.
C18_PlanKeepsArguments ==
    adapter_last.op = "plan_vm_creation"
        => /\ adapter_last.exc = "none"
           /\ Get(adapter_last.plan.parameters, "vmid") = adapter_last.args.vm_id
           /\ Get(adapter_last.plan.parameters, "node") = adapter_last.args.node
           /\ Get(adapter_last.plan.parameters, "name") = adapter_last.args.name
           /\ Get(adapter_last.plan.parameters, "cpu") = adapter_last.args.cpu
           /\ Get(adapter_last.plan.parameters, "memory_mb") = adapter_last.args.memory_mb
           /\ Get(adapter_last.plan.parameters, "disk_gb") = adapter_last.args.disk_gb
           /\ adapter_last.plan.dry_run <=> (adapter_last.args.dry_run # <<FALSE>>)
           /\ adapter_last.calls = <<>>
           /\ adapter_last.invoked = 0

\* The number of segments of a path: the pieces between its "/" characters.
Segments(path) ==
    IF path = <<>> THEN 0
    ELSE Cardinality({ i \in 1..Len(path) : path[i] = "/" }) + 1

\* C21: a call of a Building value with k positional arguments returns a
\* value whose path has exactly k more segments, whatever the arguments are.
C21_OneSegmentPerArgument ==
    (last.op = "call" /\ Building(last.before) /\ last.args # <<>>)
        => /\ last.out.exc = "none"
           /\ Building(last.result)
           /\ Segments(PathOf(last.result)) =
                 Segments(PathOf(last.before)) + Len(last.args)

\* The headers a request carries when the token a is stored.
HeadersOf(a) ==
    LET headers == [EmptyHeaders EXCEPT !.Accept =
                       <<"a","p","p","l","i","c","a","t","i","o","n","/","j","s","o","n">>]
    IN  IF a = NoAuth THEN headers ELSE apply(a[1], headers)

\* C23: an authentication call that raises leaves the stored token as it
\* was, and a request on the Connector carries the token stored before it.
C23_FailedAuthKeepsToken ==
    /\ (last.op \in {"get_auth_token", "use_api_token"} /\ last.out.exc # "none")
          => conn_auth = last.auth0
    /\ (last.op = "transport" /\ last.target = "conn")
          => /\ conn_auth = last.auth0
             /\ \A i \in 1..Len(last.requests) :
                   last.requests[i].headers = HeadersOf(last.auth0)

C23_Witness ==
    /\ last.op = "get_auth_token"
    /\ last.out.exc = AuthError
    /\ last.auth0 # NoAuth
    /\ last.auth0[1].token_header # None
    /\ conn_auth = last.auth0

\* ConnectorAPI._request on the Connector, one statement at a time, beside
\* the authentication calls of other callers.

others == <<conn_auth, wrappers, cur, last, adapter, adapter_last>>

\* headers = {"Accept": "application/json"}
request_begin ==
    /\ inflight.pc \in {"idle", "sent"}
    /\ inflight' = InFlight("test", NoAuth, HeadersOf(NoAuth), conn_auth, {conn_auth})
    /\ UNCHANGED others

\* if self._auth:
request_test ==
    /\ inflight.pc = "test"
    /\ inflight' = [inflight EXCEPT !.pc = IF conn_auth # NoAuth THEN "load" ELSE "send"]
    /\ UNCHANGED others

\* self._auth.apply: the second read of self._auth, which binds the token
\* that apply runs on.
request_load ==
    /\ inflight.pc = "load"
    /\ inflight' = [inflight EXCEPT !.pc = "token_header", !.tok = conn_auth]
    /\ UNCHANGED others

\* A token looked up again on the Connector at every statement of apply.
Held_reread == conn_auth[1]

\* self inside apply.
Held == inflight.tok[1]

apply_token_header ==
    /\ inflight.pc = "token_header"
    /\ inflight' = [inflight EXCEPT
                      !.pc = "ticket",
                      !.headers = IF Truthy(Held.token_header)
                                  THEN [@ EXCEPT !.Authorization = Held.token_header]
                                  ELSE @]
    /\ UNCHANGED others

apply_ticket ==
    /\ inflight.pc = "ticket"
    /\ inflight' = [inflight EXCEPT
                      !.pc = "csrf",
                      !.headers = IF Truthy(Held.ticket)
                                  THEN [@ EXCEPT !.Cookie =
                                          <<"P","V","E","A","u","t","h","C","o","o","k","i","e","=">>
                                          \o Held.ticket]
                                  ELSE @]
    /\ UNCHANGED others

apply_csrf ==
    /\ inflight.pc = "csrf"
    /\ inflight' = [inflight EXCEPT
                      !.pc = "send",
                      !.headers = IF Truthy(Held.csrf)
                                  THEN [@ EXCEPT !.CSRFPreventionToken = Held.csrf]
                                  ELSE @]
    /\ UNCHANGED others

\* self.session.request(..., headers=headers, ...)
request_send ==
    /\ inflight.pc = "send"
    /\ inflight' = [inflight EXCEPT !.pc = "sent"]
    /\ UNCHANGED others

\* The answers of the ticket endpoint the race is explored with.
RaceResponses ==
    { Response(FALSE, 200, Body("object", TRUE, DataValue("dict", srv_ticket, srv_csrf))),
      Response(FALSE, 200, Body("object", TRUE, DataValue("dict", JsonNull, srv_csrf))),
      Response(FALSE, 401, Body("nonjson", FALSE, DataValue("null", None, None))) }

\* One request on the Connector racing with authentication calls.
NextRace ==
    \/ \E p \in Passwords, resp \in RaceResponses : get_auth_token(<<"u","@","p">>, p, resp)
    \/ \E u \in Usernames, n \in TokenNames, tv \in TokenValues : use_api_token(u, n, tv)
    \/ request_begin
    \/ request_test
    \/ request_load
    \/ apply_token_header
    \/ apply_ticket
    \/ apply_csrf
    \/ request_send

SpecRace == Init /\ [][NextRace]_vars

\* C22: the headers of a request that ran beside authentication calls are
\* those of one token the Connector held during the request, or of none.
C22_HeadersFromOneToken ==
    inflight.pc = "sent"
        => \E a \in inflight.stored \cup {NoAuth} : inflight.headers = HeadersOf(a)

C22_Witness ==
    /\ inflight.pc = "sent"
    /\ inflight.begin # NoAuth
    /\ inflight.begin[1].ticket # None
    /\ inflight.tok # inflight.begin
    /\ conn_auth # inflight.tok
    /\ Cardinality(inflight.stored) >= 3
    /\ inflight.headers = HeadersOf(inflight.tok)

====
